---------------------------- MODULE Spec2Model ----------------------------
(***************************************************************************)
(* Competition lifecycle of the referral / giveaway bot (src/pubg.py).     *)
(*                                                                         *)
(* The persisted store competitions.json is read whole (load_json) and     *)
(* written whole (save_json).  Handlers run on the bot's worker threads,   *)
(* the deadline sweep on its own thread; every load and every save is one  *)
(* step, so a handler's copy of the store can be stale when it is saved.   *)
(***************************************************************************)
EXTENDS Integers, Sequences, FiniteSets, TLC

\* ------------------------------------------------------------------ bounds
MaxUsers == 2       \* user ids
MaxComps == 2       \* competition ids
MaxSide == 1        \* competition records the admin creates side by side
MaxTime == 1        \* clock values and deadlines
MaxWinners == 2     \* requested winner counts
MaxWorkers == 2     \* worker threads running handlers
MaxPending == 2     \* next-step handlers registered per chat
MaxRuns == 2        \* announcement sequences counted per competition record (then it sticks)
MaxLen == 3         \* tokens of a caption text

Users == 1..MaxUsers
CompIds == 1..MaxComps
Workers == 1..MaxWorkers
Deadlines == 1..MaxTime
Places == {"channel", "group"}
\* a message text is a sequence of tokens: a blank, a dash, a letter, a digit, a date-time
\* string in the format %Y-%m-%d %H:%M, the command word /start
Dash == <<"-">>
\* texts a user can send as a reply to the comment prompt
Texts == {Dash, <<"x">>, <<"/start">>}
\* message.text of a message that carries no text
NoText == <<"None">>

VARIABLES
    competitions,   \* competitions.json: comp_id -> record (a dict, keys a subset of CompIds)
    now,            \* datetime.datetime.now(), as a counter
    oracleDown,     \* bot.get_chat_member raises for every query
    inChannel,      \* users whose status in CHANNEL_ID is member/administrator/creator
    inGroup,        \* users whose status in GROUP_ID is member/administrator/creator
    next_step,      \* telebot next-step handlers per chat: comp ids bound to save_comment_and_join
    task,           \* per worker thread: the handler it runs, its position and its locals
    chk,            \* competition_checker_thread: position and locals of the sweep
    runs,           \* per competition id: announcement sequences executed since the record was created
    lastFin,        \* per competition id: what the last finalization of the current record sent
    shown,          \* per competition id and surface: participant count on the posted join button
    lastBlocked,    \* per user: competition id of the last join press the guard blocked (0: none)
    lastMsg,        \* per user: the gate's last answer: "none", "prompt" or "confirmed"
    wizard,         \* the next-step handler of the creation wizard registered for the admin's
                    \* chat, with the arguments bound to it
    users,          \* users.json: user id -> record (a dict, keys a subset of Users)
    withdraw_step,  \* telebot next-step handlers per chat: amounts bound to confirm_withdraw
    withdrawn       \* per user: the sum of the amounts of the withdrawals confirm_withdraw
                    \* accepted and passed on to the admins

vars == <<competitions, now, oracleDown, inChannel, inGroup, next_step, task, chk,
          runs, lastFin, shown, lastBlocked, lastMsg, wizard, users, withdraw_step, withdrawn>>

\* ------------------------------------------------------------- data model
\* the dual-purpose "winners" field: an int before finalization, a list of ids after
WinCount(n) == [tag |-> "int", n |-> n, ids |-> <<>>]
WinList(s) == [tag |-> "list", n |-> 0, ids |-> s]

NoStore == <<>>

Min(a, b) == IF a <= b THEN a ELSE b

Range(s) == {s[i] : i \in DOMAIN s}

\* p.get("id") for p in comp["participants"]
ParticipantIds(comp) == {comp.participants[i].id : i \in DOMAIN comp.participants}

\* the membership test skipped
AlreadyIn_Never(comp, uid) == FALSE

\* any(p.get("id") == uid for p in comp.get("participants", []))
AlreadyIn(comp, uid) == \E i \in DOMAIN comp.participants : comp.participants[i].id = uid

\* comp["participants"].append({"id": uid, "comment": comment})
AddParticipant(comp, uid, comment) ==
    [comp EXCEPT !.participants = Append(@, [id |-> uid, comment |-> comment])]

\* competitions[comp_id] = comp
Put(store, c, comp) == [d \in (DOMAIN store) \cup {c} |-> IF d = c THEN comp ELSE store[d]]

\* del competitions[comp_id]
Del(store, c) == [d \in (DOMAIN store) \ {c} |-> store[d]]

\* ------------------------------------------------------ membership oracle
\* the same test failing open: an exception counts as subscribed
check_subscription_FailOpen(u) ==
    IF oracleDown THEN TRUE ELSE (u \in inChannel) /\ (u \in inGroup)

\* check_subscription: both statuses are member-like; any exception yields False
check_subscription(u) ==
    IF oracleDown THEN FALSE ELSE (u \in inChannel) /\ (u \in inGroup)


\* ------------------------------------------------------------ worker tasks
Idle == [fn |-> "idle", uid |-> 0, comp_id |-> 0, val |-> <<>>, num |-> 0, snap |-> NoStore,
         num2 |-> 0, opened |-> FALSE, old |-> NoStore]

Task(fn, uid, c, val, num, snap) ==
    [fn |-> fn, uid |-> uid, comp_id |-> c, val |-> val, num |-> num, snap |-> snap,
     num2 |-> 0, opened |-> FALSE, old |-> NoStore]

Run(w, t) == task' = [task EXCEPT ![w] = t]

Finish(w) == task' = [task EXCEPT ![w] = Idle]

\* message.text.startswith("/start")
StartsWithStart(t) == t # <<>> /\ Head(t) = "/start"

\* str.strip(): leading and trailing blanks removed
RECURSIVE lstrip(_)
lstrip(s) == IF s # <<>> /\ Head(s) = " " THEN lstrip(Tail(s)) ELSE s

RECURSIVE rstrip(_)
rstrip(s) == IF s # <<>> /\ s[Len(s)] = " " THEN rstrip(SubSeq(s, 1, Len(s) - 1)) ELSE s

strip(s) == rstrip(lstrip(s))

\* the text kept as it came, blanks included
CommentOf_Raw(t) == IF t = Dash THEN <<>> ELSE t

\* message.text.strip(), then "-" becomes the empty string
CommentOf(t) == IF strip(t) = Dash THEN <<>> ELSE strip(t)

ADMIN_IDS == {1}

NoShown == [p \in Places |-> -1]

NoFin == [kind |-> "none", group |-> 0, channel |-> 0, dms |-> {}, admins |-> FALSE]

envVars == <<now, oracleDown, inChannel, inGroup>>
payVars == <<withdraw_step, withdrawn>>
gateVars == <<lastBlocked, lastMsg>>
finVars == <<runs, lastFin>>

\* ------------------------------------------------------------- join flow
\* join_competition behind subscription_guard_callback, up to the direct message
join_competition(w, u, c) ==
    /\ task[w] = Idle
    /\ IF ~check_subscription(u)
       THEN /\ lastBlocked' = [lastBlocked EXCEPT ![u] = c]
            /\ lastMsg' = [lastMsg EXCEPT ![u] = "prompt"]
            /\ UNCHANGED <<task, next_step>>
       ELSE /\ UNCHANGED gateVars
            /\ IF c \notin DOMAIN competitions
               THEN UNCHANGED <<task, next_step>>
               ELSE IF AlreadyIn(competitions[c], u)
               THEN UNCHANGED <<task, next_step>>
               ELSE \E dm \in BOOLEAN :
                      IF dm
                      THEN /\ Len(next_step[u]) < MaxPending
                           /\ next_step' = [next_step EXCEPT ![u] = Append(@, c)]
                           /\ UNCHANGED task
                      ELSE /\ Run(w, Task("join_fallback_save", u, c, <<>>, 0, competitions))
                           /\ UNCHANGED next_step
    /\ UNCHANGED <<competitions, envVars, payVars, wizard, users, chk, finVars, shown>>

\* check_sub_callback: re-check the subscription; main menu or the prompt again
check_sub_callback(u) ==
    /\ lastMsg[u] # "none"
    /\ lastMsg' = [lastMsg EXCEPT ![u] = IF check_subscription(u) THEN "confirmed" ELSE "prompt"]
    /\ UNCHANGED <<competitions, envVars, payVars, wizard, users, next_step, task, chk, finVars, shown, lastBlocked>>

\* join_competition, the except branch: add with an empty comment, save, notify the user
\* (the send may raise: outcomes), then refresh
join_fallback_save(w, outcomes) ==
    /\ task[w].fn = "join_fallback_save"
    /\ LET t == task[w]
           comp == AddParticipant(t.snap[t.comp_id], t.uid, <<>>)
       IN /\ competitions' = Put(t.snap, t.comp_id, comp)
          /\ \E sent \in outcomes :
               IF sent THEN Run(w, Task("refresh", t.uid, t.comp_id, <<>>, 0, NoStore))
                       ELSE Finish(w)
    /\ UNCHANGED <<envVars, payVars, wizard, users, next_step, chk, finVars, shown, gateVars>>

\* a message from a user with registered next-step handlers: telebot pops them all
\* and runs each one on a worker thread
Reply(u, t) ==
    /\ next_step[u] # <<>>
    /\ \E f \in [DOMAIN next_step[u] -> Workers] :
         /\ \A i, j \in DOMAIN f : i < j => f[i] < f[j]
         /\ \A i \in DOMAIN f : task[f[i]] = Idle
         /\ task' = [w \in Workers |->
                       IF \E i \in DOMAIN f : f[i] = w
                       THEN Task("save_comment_and_join", u,
                                 next_step[u][CHOOSE i \in DOMAIN f : f[i] = w], t, 0, NoStore)
                       ELSE task[w]]
    /\ next_step' = [next_step EXCEPT ![u] = <<>>]
    /\ UNCHANGED <<competitions, envVars, payVars, wizard, users, chk, finVars, shown, gateVars>>

\* save_comment_and_join behind subscription_guard_message, up to the append
save_comment_and_join(w) ==
    /\ task[w].fn = "save_comment_and_join"
    /\ LET t == task[w]
       IN IF ~StartsWithStart(t.val) /\ ~check_subscription(t.uid)
          THEN /\ Finish(w)
               /\ lastMsg' = [lastMsg EXCEPT ![t.uid] = "prompt"]
          ELSE /\ UNCHANGED lastMsg
               /\ IF t.comp_id \notin DOMAIN competitions
                  THEN Finish(w)
                  ELSE IF AlreadyIn(competitions[t.comp_id], t.uid)
                  THEN Finish(w)
                  ELSE Run(w, Task("comment_save", t.uid, t.comp_id, CommentOf(t.val), 0,
                                   competitions))
    /\ UNCHANGED <<competitions, envVars, payVars, wizard, users, next_step, chk, finVars, shown, lastBlocked>>

\* save_comment_and_join: append, save, confirm to the user (the send may raise: outcomes),
\* then refresh
comment_save(w, outcomes) ==
    /\ task[w].fn = "comment_save"
    /\ LET t == task[w]
           comp == AddParticipant(t.snap[t.comp_id], t.uid, t.val)
       IN /\ competitions' = Put(t.snap, t.comp_id, comp)
          /\ \E sent \in outcomes :
               IF sent THEN Run(w, Task("refresh", t.uid, t.comp_id, <<>>, 0, NoStore))
                       ELSE Finish(w)
    /\ UNCHANGED <<envVars, payVars, wizard, users, next_step, chk, finVars, shown, gateVars>>

\* what each surface's pair of edits can do: the caption edit succeeds, only the button
\* edit succeeds, or both raise
EditOutcomes == [Places -> {"caption", "markup", "failed"}]
AllEdited == {[p \in Places |-> "caption"]}

\* the loop stopping at the first surface whose two edits both raise
ButtonEdited_StopAtFailure(o, p) ==
    o[p] # "failed" /\ (p = "group" => o["channel"] # "failed")

\* update_competition_posts, the nested try/except of one surface: the button shows the
\* new count unless edit_message_caption and edit_message_reply_markup both raise
ButtonEdited(o, p) == o[p] # "failed"

\* the caller's code after update_competition_posts returned: admin_repost_ answers the
\* admin, the other callers are done
AfterRefresh(w) ==
    IF task[w].val = <<"repost">>
    THEN Run(w, Task("repost_answer", task[w].uid, task[w].comp_id, <<>>, 0, NoStore))
    ELSE Finish(w)

\* update_competition_posts: reload the store, count the participants, build the keyboard
update_competition_posts(w) ==
    /\ task[w].fn = "refresh"
    /\ LET t == task[w]
       IN IF t.comp_id \notin DOMAIN competitions
          THEN AfterRefresh(w)
          ELSE Run(w, Task("edit_posts", t.uid, t.comp_id, t.val, 0, competitions))
    /\ UNCHANGED <<competitions, envVars, payVars, wizard, users, next_step, chk, finVars, shown, gateVars>>

\* the edit loop forgetting the handle of a surface whose two edits failed, and saving
edit_posts_DropHandles(w, outcomes) ==
    /\ task[w].fn = "edit_posts"
    /\ \E o \in outcomes :
         LET t == task[w]
             comp == t.snap[t.comp_id]
         IN /\ shown' = [shown EXCEPT ![t.comp_id] =
                           [p \in Places |->
                              IF comp.message_info[p] /\ ButtonEdited(o, p)
                              THEN Len(comp.participants)
                              ELSE shown[t.comp_id][p]]]
            /\ competitions' =
                 Put(t.snap, t.comp_id,
                     [comp EXCEPT !.message_info =
                        [p \in Places |-> comp.message_info[p] /\ ButtonEdited(o, p)]])
    /\ AfterRefresh(w)
    /\ UNCHANGED <<envVars, payVars, wizard, users, next_step, chk, finVars, gateVars>>

\* update_competition_posts: edit the post on every surface that has a stored handle, with
\* the count taken from the copy loaded at the head of the refresh
edit_posts(w, outcomes) ==
    /\ task[w].fn = "edit_posts"
    /\ \E o \in outcomes :
         LET t == task[w]
             comp == t.snap[t.comp_id]
         IN shown' = [shown EXCEPT ![t.comp_id] =
                        [p \in Places |->
                           IF comp.message_info[p] /\ ButtonEdited(o, p)
                           THEN Len(comp.participants)
                           ELSE shown[t.comp_id][p]]]
    /\ AfterRefresh(w)
    /\ UNCHANGED <<competitions, envVars, payVars, wizard, users, next_step, chk, finVars, gateVars>>

\* admin_comp_actions, admin_repost_: refresh the posts of a competition
admin_repost(w, a, c) ==
    /\ task[w] = Idle
    /\ check_subscription(a)
    /\ Run(w, Task("refresh", a, c, <<"repost">>, 0, NoStore))
    /\ UNCHANGED <<competitions, envVars, payVars, wizard, users, next_step, chk, finVars, shown, gateVars>>

\* admin_comp_actions, admin_repost_: the answers sent after update_competition_posts
admin_repost_answer(w) ==
    /\ task[w].fn = "repost_answer"
    /\ Finish(w)
    /\ UNCHANGED <<competitions, envVars, payVars, wizard, users, next_step, chk, finVars, shown, gateVars>>


\* the record committed as if it were posted already
NewComp_Posted(caption, deadline, winners) ==
    [deadline |-> deadline, winners |-> WinCount(winners), participants |-> <<>>,
     caption |-> caption, winners_announced |-> FALSE,
     message_info |-> [p \in Places |-> TRUE]]

\* the record process_comp_winners_count commits
NewComp(caption, deadline, winners) ==
    [deadline |-> deadline, winners |-> WinCount(winners), participants |-> <<>>,
     caption |-> caption, winners_announced |-> FALSE,
     message_info |-> [p \in Places |-> FALSE]]

\* --------------------------------------------------------------- referral
\* the record add_user creates; ref 0 is None
NewUser(ref) == [uc |-> 0, ref |-> ref, refs |-> <<>>]

\* add_user on its copy of users.json: create the record, then credit the referrer if its
\* id is a key of that copy (the new record is one already)
AddUser(store, uid, ref) ==
    LET created == Put(store, uid, NewUser(ref))
    IN IF ref # 0 /\ ref \in DOMAIN created
       THEN Put(created, ref, [created[ref] EXCEPT !.refs = Append(@, uid), !.uc = @ + 3])
       ELSE created

\* the end of start: the subscription prompt for a user who is not subscribed, else the menu
StartAnswer(u) == IF check_subscription(u) THEN lastMsg ELSE [lastMsg EXCEPT ![u] = "prompt"]

\* start, up to the test in add_user: parse the argument, load users.json; a known user
\* is not saved again
start(w, u, ref) ==
    /\ task[w] = Idle
    /\ IF u \in DOMAIN users
       THEN /\ lastMsg' = StartAnswer(u)
            /\ UNCHANGED task
       ELSE /\ Run(w, Task("add_user", u, 0, <<>>, ref, users))
            /\ UNCHANGED lastMsg
    /\ UNCHANGED <<competitions, envVars, payVars, wizard, users, next_step, chk, finVars, shown,
                   lastBlocked>>

\* add_user: create the record, credit the referrer, save_json; then the answer of start
add_user_save(w) ==
    /\ task[w].fn = "add_user"
    /\ users' = AddUser(task[w].snap, task[w].uid, task[w].num)
    /\ lastMsg' = StartAnswer(task[w].uid)
    /\ Finish(w)
    /\ UNCHANGED <<competitions, envVars, payVars, wizard, next_step, chk, finVars, shown,
                   lastBlocked>>

\* ------------------------------------------------------------- withdrawal
\* the amounts on the buttons of request_uc_withdraw
Amounts == {60, 120, 180, 325}

\* the credit add_user has granted to u: 3 UC with each id it appended to the referred list
Earned(store, u) == IF u \in DOMAIN store THEN 3 * Len(store[u].refs) ELSE 0

\* users.get(str(user_id), {}).get("uc", 0)
Balance(store, u) == IF u \in DOMAIN store THEN store[u].uc ELSE 0

\* request_uc_withdraw: the buttons of the keyboard it sends, none below 60 UC
WithdrawButtons(store, u) ==
    IF Balance(store, u) < 60 THEN {} ELSE {a \in Amounts : Balance(store, u) >= a}

\* request_uc_withdraw and handle_withdraw behind their guards: the user opens the menu and
\* presses one of its buttons; confirm_withdraw is registered with the amount if the
\* question for the PUBG id was sent
handle_withdraw(u, amount) ==
    /\ check_subscription(u)
    /\ amount \in WithdrawButtons(users, u)
    /\ Len(withdraw_step[u]) < MaxPending
    /\ \E sent \in BOOLEAN :
         withdraw_step' = IF sent THEN [withdraw_step EXCEPT ![u] = Append(@, amount)]
                          ELSE withdraw_step
    /\ UNCHANGED <<competitions, envVars, withdrawn, wizard, users, next_step, task, chk, finVars,
                   shown, gateVars>>

\* a text message of u: every confirm_withdraw handler registered for the chat is handed,
\* in registration order, to a worker thread of its own
WithdrawReply(u, t) ==
    /\ withdraw_step[u] # <<>>
    /\ \E f \in [DOMAIN withdraw_step[u] -> Workers] :
         /\ \A i, j \in DOMAIN f : i < j => f[i] < f[j]
         /\ \A i \in DOMAIN f : task[f[i]] = Idle
         /\ task' = [w \in Workers |->
                       IF \E i \in DOMAIN f : f[i] = w
                       THEN Task("confirm_withdraw", u, 0, t,
                                 withdraw_step[u][CHOOSE i \in DOMAIN f : f[i] = w], NoStore)
                       ELSE task[w]]
    /\ withdraw_step' = [withdraw_step EXCEPT ![u] = <<>>]
    /\ UNCHANGED <<competitions, envVars, withdrawn, wizard, users, next_step, chk, finVars, shown,
                   gateVars>>

\* confirm_withdraw behind subscription_guard_message, up to the test of the balance
confirm_withdraw(w) ==
    /\ task[w].fn = "confirm_withdraw"
    /\ LET t == task[w]
       IN IF ~StartsWithStart(t.val) /\ ~check_subscription(t.uid)
          THEN /\ Finish(w)
               /\ lastMsg' = [lastMsg EXCEPT ![t.uid] = "prompt"]
          ELSE /\ UNCHANGED lastMsg
               /\ IF Balance(users, t.uid) < t.num
                  THEN Finish(w)
                  ELSE Run(w, Task("withdraw_save", t.uid, 0, t.val, t.num, users))
    /\ UNCHANGED <<competitions, envVars, payVars, wizard, users, next_step, chk, finVars, shown,
                   lastBlocked>>

\* confirm_withdraw: users[uid]["uc"] -= amount; save_json; the request goes to the admins
\* and the user is told it was accepted
withdraw_save(w) ==
    /\ task[w].fn = "withdraw_save"
    /\ LET t == task[w]
       IN /\ users' = Put(t.snap, t.uid, [t.snap[t.uid] EXCEPT !.uc = @ - t.num])
          /\ withdrawn' = [withdrawn EXCEPT ![t.uid] = @ + t.num]
    /\ Finish(w)
    /\ UNCHANGED <<competitions, envVars, withdraw_step, wizard, next_step, chk, finVars, shown,
                   gateVars>>

\* ------------------------------------------------------- creation wizard
\* no wizard handler is registered; the fields are the arguments bound to the handler
\* (file_id 0, caption NoText, deadline 0: not collected yet)
NoWizard == [fn |-> "none", file_id |-> 0, caption |-> NoText, deadline |-> 0]

\* messages the admin can send: a photo (message.text is None) or a text
Photo == [photo |-> TRUE, text |-> NoText]
TextMsg(t) == [photo |-> FALSE, text |-> t]

\* the non-empty texts of at most n tokens over the alphabet A
TextsUpTo(A, n) == UNION {[1..k -> A] : k \in 1..n}

\* subscription_guard_message around a next-step handler: /start passes unchecked
GuardPasses(a, msg) ==
    (msg.text # NoText /\ StartsWithStart(msg.text)) \/ check_subscription(a)

\* datetime.strptime(text.strip(), "%Y-%m-%d %H:%M") as a clock value; 0: it raises
DateValue(tok) ==
    CASE tok = "T1" -> 1 [] tok = "T2" -> 2 [] tok = "T3" -> 3 [] OTHER -> 0

ParseDate(t) == IF Len(strip(t)) = 1 THEN DateValue(strip(t)[1]) ELSE 0

Digits == {"0", "1", "2"}

DigitValue(tok) == CASE tok = "0" -> 0 [] tok = "1" -> 1 [] tok = "2" -> 2 [] OTHER -> 0

RECURSIVE DigitsValue(_)
DigitsValue(d) ==
    IF d = <<>> THEN 0
    ELSE 10 * DigitsValue(SubSeq(d, 1, Len(d) - 1)) + DigitValue(d[Len(d)])

\* int(text.strip()): an optional sign and at least one digit; ok FALSE: ValueError
ParseInt(t) ==
    LET s == strip(t)
        d == IF s # <<>> /\ Head(s) = "-" THEN Tail(s) ELSE s
    IN IF d # <<>> /\ \A i \in DOMAIN d : d[i] \in Digits
       THEN [ok |-> TRUE, n |-> IF d = s THEN DigitsValue(d) ELSE 0 - DigitsValue(d)]
       ELSE [ok |-> FALSE, n |-> 0]

\* everything but the wizard, the workers and the store
wizardFrame == <<envVars, payVars, users, next_step, chk, finVars, shown, gateVars>>

\* ask_competition_image: the admin starts the wizard; process_comp_image is registered
ask_competition_image(a) ==
    /\ check_subscription(a)
    /\ wizard = NoWizard
    /\ wizard' = [NoWizard EXCEPT !.fn = "process_comp_image"]
    /\ UNCHANGED <<competitions, task, wizardFrame>>

\* process_comp_image: without a photo ask again and register the same step
process_comp_image(a, msg) ==
    /\ wizard.fn = "process_comp_image"
    /\ GuardPasses(a, msg)
    /\ wizard' = IF ~msg.photo
                 THEN wizard
                 ELSE [wizard EXCEPT !.fn = "process_comp_caption", !.file_id = 1]
    /\ UNCHANGED <<competitions, task, wizardFrame>>

\* process_comp_caption: message.text.strip() raises on a message without text and the
\* handler, already popped, is gone; any text is taken, "-" as the empty caption
process_comp_caption(a, msg) ==
    /\ wizard.fn = "process_comp_caption"
    /\ GuardPasses(a, msg)
    /\ wizard' = IF msg.text = NoText
                 THEN NoWizard
                 ELSE [wizard EXCEPT !.fn = "process_comp_deadline",
                                     !.caption = CommentOf(msg.text)]
    /\ UNCHANGED <<competitions, task, wizardFrame>>

\* process_comp_deadline: on any exception of the parse ask again and register the same step
process_comp_deadline(a, msg) ==
    /\ wizard.fn = "process_comp_deadline"
    /\ GuardPasses(a, msg)
    /\ wizard' = IF msg.text = NoText \/ ParseDate(msg.text) = 0
                 THEN wizard
                 ELSE [wizard EXCEPT !.fn = "process_comp_winners_count",
                                     !.deadline = ParseDate(msg.text)]
    /\ UNCHANGED <<competitions, task, wizardFrame>>

\* ------------------------------------------------------ admin: create/post
\* process_comp_winners_count after its validation, with the arguments bound to the handler:
\* load, pick the id.  The handler was popped when the message arrived.
process_comp_winners_count(w, a, caption, deadline, winners) ==
    /\ task[w] = Idle
    /\ check_subscription(a)
    /\ winners > 0
    /\ Cardinality(DOMAIN competitions) + 1 <= MaxComps
    /\ LET comp_id == Cardinality(DOMAIN competitions) + 1
       IN Run(w, [Task("create_save", a, comp_id, caption, deadline, competitions)
                    EXCEPT !.num2 = winners])
    /\ wizard' = NoWizard
    /\ UNCHANGED <<competitions, envVars, payVars, users, next_step, chk, finVars, shown, gateVars>>

\* process_comp_winners_count as the wizard's last step: a text that is not a positive
\* integer is answered with a message and the handler returns without registering itself
\* again (a message without text raises outside the except clause)
comp_winners_count_step(w, a, msg) ==
    /\ wizard.fn = "process_comp_winners_count"
    /\ GuardPasses(a, msg)
    /\ IF msg.text # NoText /\ ParseInt(msg.text).ok /\ ParseInt(msg.text).n > 0
       THEN process_comp_winners_count(w, a, wizard.caption, wizard.deadline,
                                       ParseInt(msg.text).n)
       ELSE /\ wizard' = NoWizard
            /\ UNCHANGED <<competitions, task, wizardFrame>>

\* process_comp_winners_count: competitions[comp_id] = {...}; save_json; then post_competition
create_save(w) ==
    /\ task[w].fn = "create_save"
    /\ LET t == task[w]
       IN /\ competitions' = Put(t.snap, t.comp_id, NewComp(t.val, t.num, t.num2))
          /\ runs' = [runs EXCEPT ![t.comp_id] = 0]
          /\ lastFin' = [lastFin EXCEPT ![t.comp_id] = NoFin]
          /\ Run(w, Task("post_competition", t.uid, t.comp_id, <<>>, 0, NoStore))
    /\ UNCHANGED <<envVars, payVars, wizard, users, next_step, chk, shown, gateVars>>

\* post_competition: load, render
post_competition(w) ==
    /\ task[w].fn = "post_competition"
    /\ LET t == task[w]
       IN IF t.comp_id \notin DOMAIN competitions
          THEN Finish(w)
          ELSE Run(w, Task("post_save", t.uid, t.comp_id, <<>>, 0, competitions))
    /\ UNCHANGED <<competitions, envVars, payVars, wizard, users, next_step, chk, finVars, shown, gateVars>>

\* post_competition: send_photo to the channel and the group (each may fail and leaves an
\* empty handle), store the handles, save
post_save(w, outcomes) ==
    /\ task[w].fn = "post_save"
    /\ LET t == task[w]
       IN \E ok \in outcomes :
            /\ competitions' = Put(t.snap, t.comp_id, [t.snap[t.comp_id] EXCEPT !.message_info = ok])
            /\ shown' = [shown EXCEPT ![t.comp_id] =
                           [p \in Places |-> IF ok[p] THEN Len(t.snap[t.comp_id].participants)
                                             ELSE -1]]
    /\ Finish(w)
    /\ UNCHANGED <<envVars, payVars, wizard, users, next_step, chk, finVars, gateVars>>

\* ------------------------------------------------------------ admin: edit
\* admin_update_deadline behind the guard: parse, load
admin_update_deadline(w, a, c, deadline) ==
    /\ task[w] = Idle
    /\ check_subscription(a)
    /\ IF c \notin DOMAIN competitions
       THEN UNCHANGED task
       ELSE Run(w, Task("admin_update_deadline", a, c, <<>>, deadline, competitions))
    /\ UNCHANGED <<competitions, envVars, payVars, wizard, users, next_step, chk, finVars, shown, gateVars>>

\* admin_update_winners_count behind the guard: parse, load
admin_update_winners_count(w, a, c, winners) ==
    /\ task[w] = Idle
    /\ check_subscription(a)
    /\ winners > 0
    /\ IF c \notin DOMAIN competitions
       THEN UNCHANGED task
       ELSE Run(w, Task("admin_update_winners_count", a, c, <<>>, winners, competitions))
    /\ UNCHANGED <<competitions, envVars, payVars, wizard, users, next_step, chk, finVars, shown, gateVars>>

\* admin_update_caption behind the guard: strip, "-" to <<>>, load
admin_update_caption(w, a, c, text) ==
    /\ task[w] = Idle
    /\ check_subscription(a)
    /\ IF c \notin DOMAIN competitions
       THEN UNCHANGED task
       ELSE Run(w, Task("admin_update_caption", a, c, CommentOf(text), 0, competitions))
    /\ UNCHANGED <<competitions, envVars, payVars, wizard, users, next_step, chk, finVars, shown, gateVars>>

\* comp[field] = value
Edited(comp, fn, val, num) ==
    IF fn = "admin_update_deadline" THEN [comp EXCEPT !.deadline = num]
    ELSE IF fn = "admin_update_winners_count" THEN [comp EXCEPT !.winners = WinCount(num)]
    ELSE [comp EXCEPT !.caption = val]

\* admin_update_*: competitions[comp_id] = comp; save_json; then update_competition_posts
edit_save(w) ==
    /\ task[w].fn \in {"admin_update_deadline", "admin_update_winners_count", "admin_update_caption"}
    /\ LET t == task[w]
       IN /\ competitions' = Put(t.snap, t.comp_id, Edited(t.snap[t.comp_id], t.fn, t.val, t.num))
          /\ Run(w, Task("refresh", t.uid, t.comp_id, <<>>, 0, NoStore))
    /\ UNCHANGED <<envVars, payVars, wizard, users, next_step, chk, finVars, shown, gateVars>>

\* the handler positions whose next step is save_json("competitions.json", ...)
CompetitionSaves ==
    {"join_fallback_save", "comment_save", "create_save", "post_save", "admin_update_deadline",
     "admin_update_winners_count", "admin_update_caption", "admin_delete"}

\* save_json, open(filename, 'w'): the file is truncated before json.dump writes it, and
\* load_json turns the JSONDecodeError of an empty file into {}; old is what the file held
save_json_open(w) ==
    /\ ~task[w].opened
    /\ \/ /\ task[w].fn \in CompetitionSaves
          /\ task' = [task EXCEPT ![w].opened = TRUE, ![w].old = competitions]
          /\ competitions' = NoStore
          /\ UNCHANGED users
       \/ /\ task[w].fn = "add_user"
          /\ task' = [task EXCEPT ![w].opened = TRUE, ![w].old = users]
          /\ users' = NoStore
          /\ UNCHANGED competitions
    /\ UNCHANGED <<envVars, payVars, wizard, next_step, chk, finVars, shown, gateVars>>

\* admin_comp_actions, admin_delete_: load
admin_delete(w, a, c) ==
    /\ task[w] = Idle
    /\ check_subscription(a)
    /\ IF c \notin DOMAIN competitions
       THEN UNCHANGED task
       ELSE Run(w, Task("admin_delete", a, c, <<>>, 0, competitions))
    /\ UNCHANGED <<competitions, envVars, payVars, wizard, users, next_step, chk, finVars, shown, gateVars>>

\* admin_comp_actions, admin_delete_: del competitions[comp_id]; save_json
delete_save(w) ==
    /\ task[w].fn = "admin_delete"
    /\ competitions' = Del(task[w].snap, task[w].comp_id)
    /\ Finish(w)
    /\ UNCHANGED <<envVars, payVars, wizard, users, next_step, chk, finVars, shown, gateVars>>


\* --------------------------------------------------------- deadline sweep
Sleeping == [pc |-> "sleep", todo |-> {}, cur |-> 0, fsnap |-> NoStore, pick |-> <<>>]

\* every participant wins, whatever count was requested
WinnersCount_All(comp) == Len(comp.participants)

\* winners_count = min(winners_count, len(participants))
WinnersCount(comp) == Min(comp.winners.n, Len(comp.participants))

\* k draws that may take the same participant again
Samples_WithReplacement(participants, k) ==
    {[i \in 1..k |-> participants[ix[i]].id] : ix \in [1..k -> DOMAIN participants]}

\* the k-samples random.sample(participants, k) can return, as lists of ids
Samples(participants, k) ==
    {[i \in 1..k |-> participants[ix[i]].id] :
        ix \in {f \in [1..k -> DOMAIN participants] : \A i, j \in 1..k : i # j => f[i] # f[j]}}

\* send outcomes of the four announcement attempts (Markdown group, Markdown channel,
\* plain group, plain channel): TRUE is delivered
AllDelivered == {[i \in 1..4 |-> TRUE]}
AnyDelivery == [1..4 -> BOOLEAN]

\* finish_competition, no participants: group then channel inside one try
EmptySends(ok) ==
    [kind |-> "empty", group |-> IF ok[1] THEN 1 ELSE 0,
     channel |-> IF ok[1] /\ ok[2] THEN 1 ELSE 0, dms |-> {}, admins |-> FALSE]

\* finish_competition, winners: Markdown to group then channel inside one try, on an
\* exception the plain fallback to group then channel; then one DM per winner
WinnerSends(ok, ids) ==
    LET fallback == ~(ok[1] /\ ok[2])
    IN [kind |-> "winners",
        group |-> (IF ok[1] THEN 1 ELSE 0) + (IF fallback /\ ok[3] THEN 1 ELSE 0),
        channel |-> (IF ok[1] /\ ok[2] THEN 1 ELSE 0)
                    + (IF fallback /\ ok[3] /\ ok[4] THEN 1 ELSE 0),
        dms |-> Range(ids), admins |-> FALSE]

\* a stored deadline that datetime.fromisoformat rejects
BadDeadline == 0 - 1

\* no record is ever due
Expired_Never(comp, tnow) == FALSE

\* the guard of check_expired_competitions, on the tick's own copy of the store; a deadline
\* that does not parse raises, the loop's except clause prints and goes to the next record
Expired(comp, tnow) ==
    comp.deadline # BadDeadline /\ tnow >= comp.deadline /\ ~comp.winners_announced

\* the first exception ends the tick
AfterException_Abort(todo, c) == {}

\* an exception raised by finish_competition(c) is caught inside the loop of
\* check_expired_competitions, which goes on with the records left
AfterException(todo, c) == todo \ {c}

\* check_expired_competitions: load the store and read the clock once per tick.  The loop
\* tests every record of that copy against that clock value, so the tick keeps the ids
\* the test selects (todo) instead of the copy.
check_expired_competitions ==
    /\ chk.pc = "sleep"
    /\ chk' = [Sleeping EXCEPT !.pc = "sweep",
                               !.todo = {c \in DOMAIN competitions : Expired(competitions[c], now)}]
    /\ UNCHANGED <<competitions, envVars, payVars, wizard, users, next_step, task, finVars, shown, gateVars>>

\* the guard without its winners_announced test
FinishSkips_NoFlag(store, c) == c \notin DOMAIN store

\* the guard at the head of finish_competition: the record is gone or already processed
FinishSkips(store, c) == c \notin DOMAIN store \/ store[c].winners_announced

\* one call of finish_competition from the loop in check_expired_competitions, up to
\* its save: reload, guards, draw the winners, announce, DM the winners
finish_competition(outcomes) ==
    /\ chk.pc = "sweep"
    /\ chk.todo # {}
    /\ LET c == CHOOSE x \in chk.todo : \A y \in chk.todo : x <= y
           rest == [chk EXCEPT !.todo = @ \ {c}]
       IN IF FinishSkips(competitions, c)
          THEN chk' = rest /\ UNCHANGED finVars
          ELSE IF competitions[c].participants # <<>> /\ competitions[c].winners.tag # "int"
          THEN \* min(winners_count, len(participants)) raises on a list
               chk' = [chk EXCEPT !.todo = AfterException(@, c)] /\ UNCHANGED finVars
          ELSE /\ runs' = [runs EXCEPT ![c] = Min(@ + 1, MaxRuns)]
               /\ \E ok \in outcomes :
                    IF competitions[c].participants = <<>>
                    THEN /\ lastFin' = [lastFin EXCEPT ![c] = EmptySends(ok)]
                         /\ chk' = [rest EXCEPT !.pc = "finish_save", !.cur = c,
                                                !.fsnap = competitions]
                    ELSE LET participants == competitions[c].participants
                             k == WinnersCount(competitions[c])
                         IN \E ids \in Samples(participants, k) :
                              /\ lastFin' = [lastFin EXCEPT ![c] = WinnerSends(ok, ids)]
                              /\ chk' = [rest EXCEPT !.pc = "finish_save", !.cur = c,
                                                     !.fsnap = competitions, !.pick = ids]
    /\ UNCHANGED <<competitions, envVars, payVars, wizard, users, next_step, task, shown, gateVars>>

\* what finish_competition writes into the record
Finalized(comp, ids) ==
    IF comp.participants = <<>>
    THEN [comp EXCEPT !.winners_announced = TRUE]
    ELSE [comp EXCEPT !.winners = WinList(ids), !.winners_announced = TRUE]

\* finish_competition: competitions[comp_id] = comp; save_json; then notify the admins
finish_save ==
    /\ chk.pc = "finish_save"
    /\ competitions' = Put(chk.fsnap, chk.cur, Finalized(chk.fsnap[chk.cur], chk.pick))
    /\ lastFin' = [lastFin EXCEPT ![chk.cur].admins = chk.fsnap[chk.cur].participants # <<>>]
    /\ chk' = [chk EXCEPT !.pc = "sweep", !.cur = 0, !.fsnap = NoStore, !.pick = <<>>]
    /\ UNCHANGED <<envVars, payVars, wizard, users, next_step, task, runs, shown, gateVars>>

\* check_expired_competitions returns; competition_checker_thread sleeps 30 seconds
sweep_done ==
    /\ chk.pc = "sweep"
    /\ chk.todo = {}
    /\ chk' = Sleeping
    /\ UNCHANGED <<competitions, envVars, payVars, wizard, users, next_step, task, finVars, shown, gateVars>>

\* ------------------------------------------------------------ environment
AdvanceTime ==
    /\ now < MaxTime
    /\ now' = now + 1
    /\ UNCHANGED <<competitions, wizard, users, payVars, oracleDown, inChannel, inGroup, next_step, task, chk,
                   finVars, shown, gateVars>>

\* a user joins or leaves the channel or the group
ChannelChange(u) ==
    /\ inChannel' = IF u \in inChannel THEN inChannel \ {u} ELSE inChannel \cup {u}
    /\ UNCHANGED <<competitions, wizard, users, payVars, now, oracleDown, inGroup, next_step, task, chk,
                   finVars, shown, gateVars>>

GroupChange(u) ==
    /\ inGroup' = IF u \in inGroup THEN inGroup \ {u} ELSE inGroup \cup {u}
    /\ UNCHANGED <<competitions, wizard, users, payVars, now, oracleDown, inChannel, next_step, task, chk,
                   finVars, shown, gateVars>>

\* ---------------------------------------------------------- specification
\* the state after start-up with the given persisted competitions.json
InitAll(stores, oracle, accounts) ==
    /\ competitions \in stores
    /\ now = 0
    /\ oracleDown \in oracle
    /\ inChannel = Users
    /\ inGroup = Users
    /\ next_step = [u \in Users |-> <<>>]
    /\ task = [w \in Workers |-> Idle]
    /\ chk = Sleeping
    /\ runs = [c \in CompIds |-> 0]
    /\ lastFin = [c \in CompIds |-> NoFin]
    /\ shown = [c \in CompIds |->
                  IF c \in DOMAIN competitions
                  THEN [p \in Places |-> Len(competitions[c].participants)]
                  ELSE NoShown]
    /\ lastBlocked = [u \in Users |-> 0]
    /\ lastMsg = [u \in Users |-> "none"]
    /\ wizard = NoWizard
    /\ users \in accounts
    /\ withdraw_step = [u \in Users |-> <<>>]
    /\ withdrawn = [u \in Users |-> 0]

\* the same with an empty users.json
InitWith(stores, oracle) == InitAll(stores, oracle, {NoStore})

\* handlers of the join flow, on workers W for users U replying with the texts T
JoinSteps(W, U, T) ==
    \/ \E w \in W, u \in U, c \in CompIds : join_competition(w, u, c)
    \/ \E w \in W : join_fallback_save(w, BOOLEAN)
    \/ \E u \in U, t \in T : Reply(u, t)
    \/ \E w \in W : save_comment_and_join(w)
    \/ \E w \in W : comment_save(w, BOOLEAN)
    \/ \E w \in W : update_competition_posts(w)
    \/ \E w \in W : edit_posts(w, AllEdited)

\* the creation wizard's last step and the publication
CreateSteps(W) ==
    \/ \E w \in W, a \in ADMIN_IDS, d \in Deadlines, n \in 1..MaxWinners :
         /\ Cardinality(DOMAIN competitions) < MaxSide
         /\ process_comp_winners_count(w, a, <<>>, d, n)
    \/ \E w \in W : create_save(w)
    \/ \E w \in W : post_competition(w)
    \/ \E w \in W : post_save(w, {[p \in Places |-> TRUE]})

\* the deadline sweep of competition_checker_thread
SweepSteps ==
    \/ check_expired_competitions
    \/ finish_competition(AllDelivered)
    \/ finish_save
    \/ sweep_done

\* one worker thread, the sweep thread, every admin operation on the record
Next ==
    \/ JoinSteps({1}, Users, {Dash})
    \/ CreateSteps({1})
    \/ \E a \in ADMIN_IDS, c \in CompIds, d \in Deadlines : admin_update_deadline(1, a, c, d)
    \/ \E a \in ADMIN_IDS, c \in CompIds, n \in 1..MaxWinners :
         admin_update_winners_count(1, a, c, n)
    \/ edit_save(1)
    \/ \E a \in ADMIN_IDS, c \in CompIds : admin_delete(1, a, c)
    \/ delete_save(1)
    \/ SweepSteps
    \/ AdvanceTime

Spec == InitWith({NoStore}, {FALSE}) /\ [][Next]_vars

\* two worker threads and the sweep thread, one user: joins, comment replies and creations
\* racing with each other and with the finalization
NextRace ==
    \/ JoinSteps(Workers, {1}, {Dash})
    \/ CreateSteps(Workers)
    \/ SweepSteps
    \/ AdvanceTime

SpecRace == InitWith({NoStore}, {FALSE}) /\ [][NextRace]_vars

\* a persisted store holding one open, posted competition without participants
OneOpen == Put(NoStore, 1, [NewComp(<<>>, 1, 1) EXCEPT !.message_info = [p \in Places |-> TRUE]])

\* the same with user 1 taking part
OneJoined == Put(NoStore, 1, AddParticipant(OneOpen[1], 1, <<>>))

\* one worker thread, one user (who is the admin too) whose memberships change, every
\* reply text, and a start-up with the membership service up or down for good
NextGate ==
    \/ JoinSteps({1}, {1}, Texts)
    \/ check_sub_callback(1)
    \/ CreateSteps({1})
    \/ SweepSteps
    \/ AdvanceTime
    \/ ChannelChange(1)
    \/ GroupChange(1)

SpecGate == InitWith({NoStore, OneOpen, OneJoined}, BOOLEAN) /\ [][NextGate]_vars

\* two worker threads, two users and one posted competition: join presses, comment replies
\* and refreshes racing with each other, every message to a user delivered
NextShow ==
    \/ \E w \in Workers, u \in Users, c \in CompIds : join_competition(w, u, c)
    \/ \E w \in Workers : join_fallback_save(w, {TRUE})
    \/ \E u \in Users : Reply(u, Dash)
    \/ \E w \in Workers : save_comment_and_join(w)
    \/ \E w \in Workers : comment_save(w, {TRUE})
    \/ \E w \in Workers : update_competition_posts(w)
    \/ \E w \in Workers : edit_posts(w, AllEdited)

SpecShow == InitWith({OneOpen}, {FALSE}) /\ [][NextShow]_vars

\* a competition posted in the channel only: the send to the group failed
ChannelOnly == Put(NoStore, 1, [OneOpen[1] EXCEPT !.message_info["group"] = FALSE])

\* one worker thread, two users and the admin: comment joins and reposts of a competition
\* whose post edits succeed, fall back to the button or fail, surface by surface
NextRefresh ==
    \/ \E u \in Users, c \in CompIds : join_competition(1, u, c)
    \/ join_fallback_save(1, {TRUE})
    \/ \E u \in Users : Reply(u, Dash)
    \/ save_comment_and_join(1)
    \/ comment_save(1, {TRUE})
    \/ \E a \in ADMIN_IDS, c \in CompIds : admin_repost(1, a, c)
    \/ update_competition_posts(1)
    \/ edit_posts(1, EditOutcomes)
    \/ admin_repost_answer(1)

SpecRefresh == InitWith({OneOpen, ChannelOnly}, {FALSE}) /\ [][NextRefresh]_vars

\* one worker thread, the admin creating and deleting competitions one handler after the
\* other, and user 1 joining them
NextIds ==
    \/ \E a \in ADMIN_IDS, d \in Deadlines, n \in 1..MaxWinners :
         process_comp_winners_count(1, a, <<>>, d, n)
    \/ create_save(1)
    \/ post_competition(1)
    \/ post_save(1, {[p \in Places |-> TRUE]})
    \/ \E a \in ADMIN_IDS, c \in CompIds : admin_delete(1, a, c)
    \/ delete_save(1)
    \/ JoinSteps({1}, {1}, {Dash})

SpecIds == InitWith({NoStore}, {FALSE}) /\ [][NextIds]_vars

\* two worker threads, user 1 and the admin, one posted competition: joins, creations and
\* /start, with the truncation of a file by save_json as a step of its own
NextSave ==
    \/ JoinSteps(Workers, {1}, {Dash})
    \/ CreateSteps(Workers)
    \/ \E w \in Workers, ref \in {0} \cup Users : start(w, 1, ref)
    \/ \E w \in Workers : add_user_save(w)
    \/ \E w \in Workers : save_json_open(w)

SpecSave == InitWith({OneOpen}, {FALSE}) /\ [][NextSave]_vars

\* users.json at start-up: user 1 has referred 20, 40 or 60 users and was credited 3 UC for
\* each of them
Referred == {20, 40, 60}
Accounts ==
    {Put(NoStore, 1, [uc |-> 3 * n, ref |-> 0, refs |-> [i \in 1..n |-> 100 + i]]) :
        n \in Referred}

\* two worker threads and user 1: withdrawal buttons, the messages that confirm them, and
\* the confirmations running on the worker threads
NextWithdraw ==
    \/ \E a \in Amounts : handle_withdraw(1, a)
    \/ WithdrawReply(1, Dash)
    \/ \E w \in Workers : confirm_withdraw(w)
    \/ \E w \in Workers : withdraw_save(w)

SpecWithdraw == InitAll({NoStore}, {FALSE}, Accounts) /\ [][NextWithdraw]_vars

\* texts the admin sends to the wizard and to the caption edit
CaptionTexts == TextsUpTo({" ", "-", "x"}, MaxLen)
DateTexts == {<<"T1">>, <<" ", "T1", " ">>, <<"T2">>, <<"1">>}
WinnerTexts == {<<"1">>, <<" ", "2">>, <<"0">>, <<"-", "1">>}
WizardMsgs == {Photo} \cup {TextMsg(t) : t \in CaptionTexts \cup DateTexts \cup WinnerTexts}

\* one worker thread and the admin: the creation wizard from its first question to the
\* publication, started while no handler is running, and the caption edit of a posted
\* competition
NextWizard ==
    \/ \E a \in ADMIN_IDS :
         /\ Cardinality(DOMAIN competitions) < MaxSide
         /\ task[1] = Idle
         /\ ask_competition_image(a)
    \/ \E a \in ADMIN_IDS, msg \in WizardMsgs : process_comp_image(a, msg)
    \/ \E a \in ADMIN_IDS, msg \in WizardMsgs : process_comp_caption(a, msg)
    \/ \E a \in ADMIN_IDS, msg \in WizardMsgs : process_comp_deadline(a, msg)
    \/ \E a \in ADMIN_IDS, msg \in WizardMsgs : comp_winners_count_step(1, a, msg)
    \/ create_save(1)
    \/ post_competition(1)
    \/ post_save(1, {[p \in Places |-> TRUE]})
    \/ \E a \in ADMIN_IDS, c \in CompIds, t \in CaptionTexts : admin_update_caption(1, a, c, t)
    \/ edit_save(1)
    \/ update_competition_posts(1)
    \/ edit_posts(1, AllEdited)

SpecWizard == InitWith({NoStore}, {FALSE}) /\ [][NextWizard]_vars

\* records found in competitions.json at start-up, their deadline passed: without
\* participants, with user 1, with a deadline that does not parse, with a winners field
\* that is a list although the record is not finalized
Overdue == [OneOpen[1] EXCEPT !.deadline = 0]
OverdueJoined == AddParticipant(Overdue, 1, <<>>)
OverdueBadDeadline == [OverdueJoined EXCEPT !.deadline = BadDeadline]
OverdueBadWinners == [OverdueJoined EXCEPT !.winners = WinList(<<>>)]
OverdueRecords == {Overdue, OverdueJoined, OverdueBadDeadline, OverdueBadWinners}

\* one worker thread and the sweep thread: the admin moves the deadline of a competition
\* that is past its deadline while user 2 joins it and the clock goes on
NextDeadline ==
    \/ SweepSteps
    \/ \E a \in ADMIN_IDS, c \in CompIds, d \in Deadlines : admin_update_deadline(1, a, c, d)
    \/ edit_save(1)
    \/ JoinSteps({1}, {2}, {Dash})
    \/ AdvanceTime

SpecDeadline == InitWith({Put(NoStore, 1, OverdueJoined)}, {FALSE}) /\ [][NextDeadline]_vars

\* the stores holding two such records
SweepStores == {Put(Put(NoStore, 1, r1), 2, r2) : r1 \in OverdueRecords, r2 \in OverdueRecords}

\* the sweep thread alone, every outcome of the announcement sends
NextSweep ==
    \/ check_expired_competitions
    \/ finish_competition(AnyDelivery)
    \/ finish_save
    \/ sweep_done
    \/ AdvanceTime

SpecSweep == InitWith(SweepStores, {FALSE}) /\ [][NextSweep]_vars

\* the stores in which a record that raises comes before a sound one
LiveStores ==
    {Put(Put(NoStore, 1, r1), 2, r2) :
        r1 \in {OverdueBadDeadline, OverdueBadWinners}, r2 \in {Overdue, OverdueJoined}}

\* the sweep thread, scheduled again and again by the loop of competition_checker_thread,
\* next to one worker thread serving the joins of user 1
NextLive ==
    \/ SweepSteps
    \/ AdvanceTime
    \/ JoinSteps({1}, {1}, {Dash})

SpecLive ==
    /\ InitWith(LiveStores \cup {OneOpen}, {FALSE})
    /\ [][NextLive]_vars
    /\ WF_vars(SweepSteps)

\* two worker threads serving the /start commands of the users, with and without a
\* referrer argument
NextStart ==
    \/ \E w \in Workers, u \in Users, ref \in 0..MaxUsers : start(w, u, ref)
    \/ \E w \in Workers : add_user_save(w)

SpecStart == InitWith({NoStore}, {FALSE}) /\ [][NextStart]_vars

\* ------------------------------------------------------------------ claims
NoDuplicates(comp) ==
    \A i, j \in DOMAIN comp.participants :
        i # j => comp.participants[i].id # comp.participants[j].id

\* the sweep thread is about to call finish_competition for the smallest id of its tick
SweepHead == CHOOSE x \in chk.todo : \A y \in chk.todo : x <= y
FinishCall == chk.pc = "sweep" /\ chk.todo # {} /\ chk' # chk

\* C1: in every competition of the persisted store no user id occurs twice in the
\* participant list, whatever join presses and comment replies interleave
C1_NoDuplicateParticipants ==
    \A c \in DOMAIN competitions : NoDuplicates(competitions[c])

\* C1 witness: both workers hold a comment reply of the same user for the same
\* competition, both past the already-joined test
C1_Witness ==
    /\ task[1].fn = "comment_save" /\ task[2].fn = "comment_save"
    /\ task[1].uid = task[2].uid /\ task[1].comp_id = task[2].comp_id

\* C2: the announcement sequence of finish_competition runs at most once per competition
\* record
C2_AnnouncedAtMostOnce == \A c \in CompIds : runs[c] <= 1

\* C3: a call of finish_competition on a record whose winners_announced is true sends
\* nothing, counts no announcement and leaves the persisted store as it is
C3_SecondFinishIsNoOp ==
    [][(FinishCall /\ SweepHead \in DOMAIN competitions
          /\ competitions[SweepHead].winners_announced)
        => (competitions' = competitions /\ lastFin' = lastFin /\ runs' = runs
              /\ chk'.pc = "sweep")]_vars

\* C3 witness: the sweep is about to call finish_competition on a finalized record
C3_Witness ==
    /\ chk.pc = "sweep" /\ chk.todo # {}
    /\ SweepHead \in DOMAIN competitions
    /\ competitions[SweepHead].winners_announced

\* C4: when finish_competition persists a finalization that read at least one participant,
\* the winner id list it stores has min(requested count, participants read) entries
C4_WinnerCount ==
    [][(chk.pc = "finish_save" /\ chk'.pc = "sweep"
          /\ chk.fsnap[chk.cur].participants # <<>>)
        => (/\ chk.cur \in DOMAIN competitions'
            /\ competitions'[chk.cur].winners_announced
            /\ competitions'[chk.cur].winners.tag = "list"
            /\ Len(competitions'[chk.cur].winners.ids)
                 = Min(chk.fsnap[chk.cur].winners.n, Len(chk.fsnap[chk.cur].participants)))]_vars

\* C4 witness: a finalized record with two participants and one winner
C4_Witness ==
    \E c \in DOMAIN competitions :
        /\ competitions[c].winners_announced
        /\ competitions[c].winners.tag = "list"
        /\ Len(competitions[c].winners.ids) = 1
        /\ Len(competitions[c].participants) = 2

\* C5: a finalization that read no participant marks the record finalized, stores an empty
\* winner list, sends one notice to each surface and no winner direct message
C5_EmptyFinalization ==
    [][(chk.pc = "finish_save" /\ chk'.pc = "sweep"
          /\ chk.fsnap[chk.cur].participants = <<>>)
        => (/\ competitions'[chk.cur].winners_announced
            /\ competitions'[chk.cur].winners = WinList(<<>>)
            /\ lastFin'[chk.cur].group = 1 /\ lastFin'[chk.cur].channel = 1
            /\ lastFin'[chk.cur].dms = {})]_vars

\* C6: a record that is finalized and stays finalized keeps its participant list and its
\* winners
C6_FinalizedIsImmutable ==
    [][\A c \in (DOMAIN competitions) \cap (DOMAIN competitions') :
         (competitions[c].winners_announced /\ competitions'[c].winners_announced)
         => (/\ competitions'[c].participants = competitions[c].participants
             /\ competitions'[c].winners = competitions[c].winners)]_vars

\* C7: for a record that stays in the store winners_announced never goes from true to false
C7_NeverReopened ==
    [][\A c \in (DOMAIN competitions) \cap (DOMAIN competitions') :
         competitions[c].winners_announced => competitions'[c].winners_announced]_vars

\* C8: while every membership query fails, no step adds a participant to any competition
C8_FailClosedJoin ==
    [][oracleDown =>
         \A c \in DOMAIN competitions' :
             ParticipantIds(competitions'[c])
               \subseteq (IF c \in DOMAIN competitions THEN ParticipantIds(competitions[c])
                          ELSE {})]_vars

\* C8 witness: the membership service is down and a join press on an existing competition
\* has been answered with the subscription prompt
C8_Witness ==
    /\ oracleDown
    /\ \E u \in Users : lastBlocked[u] \in DOMAIN competitions /\ lastMsg[u] = "prompt"

\* C9: when every membership query fails, a tick of the sweep that ends leaves every open
\* competition with an empty participant list
C9_TickEvictsIneligible ==
    [][(chk.pc = "sweep" /\ chk'.pc = "sleep" /\ oracleDown)
        => \A c \in DOMAIN competitions' :
             ~competitions'[c].winners_announced => competitions'[c].participants = <<>>]_vars

\* C10: a confirmation (check_sub) by a user who is eligible now, and whose last join press
\* on competition X was blocked, adds the user to X and clears the remembered X
C10_PendingJoinResolved ==
    [][\A u \in Users :
         (/\ lastMsg[u] = "prompt" /\ lastMsg'[u] = "confirmed"
          /\ lastBlocked[u] \in DOMAIN competitions
          /\ ~AlreadyIn(competitions[lastBlocked[u]], u))
         => (/\ lastBlocked[u] \in DOMAIN competitions'
             /\ AlreadyIn(competitions'[lastBlocked[u]], u)
             /\ lastBlocked'[u] = 0)]_vars

\* C11: a join press on a competition id that is not in the store, or by a user who is
\* already in the participant list, is answered as such without the membership being
\* consulted first: no subscription prompt goes out, no press is recorded as blocked, the
\* store, the next-step handlers and the workers stay as they are; eligible or not
C11_RejectBeforeEligibility ==
    [][\A w \in Workers, u \in Users, c \in CompIds :
         (/\ join_competition(w, u, c)
          /\ (c \notin DOMAIN competitions \/ AlreadyIn(competitions[c], u)))
         => UNCHANGED <<competitions, next_step, task, lastBlocked, lastMsg>>]_vars

\* C12: a handler run that persists an added participant goes on to the refresh of that
\* competition's posts, the fallback add of join_competition included
C12_AddIsRefreshed ==
    [][\A w \in Workers :
         (task[w].fn \in {"join_fallback_save", "comment_save"} /\ task'[w] # task[w])
         => (task'[w].fn = "refresh" /\ task'[w].comp_id = task[w].comp_id)]_vars

\* no handler is running on any worker thread
Quiescent == \A w \in Workers : task[w] = Idle

\* C13: once every join handler and every refresh has completed, the count on the join
\* button of each surface that has a stored handle is the length of the persisted
\* participant list
C13_DisplayedCountsConverge ==
    Quiescent =>
        \A c \in DOMAIN competitions : \A p \in Places :
            competitions[c].message_info[p] => shown[c][p] = Len(competitions[c].participants)

\* C14: a participant of a competition that stays in the store is in its persisted
\* participant list after every step (here every persisted participant was confirmed to the
\* user in the step that saved it)
C14_NoLostUpdate ==
    [][\A c \in (DOMAIN competitions) \cap (DOMAIN competitions') :
         ParticipantIds(competitions[c]) \subseteq ParticipantIds(competitions'[c])]_vars

\* what the wizard state fn does not accept: no photo, no text, a text that is not a
\* date-time, a text that is not a positive integer
InvalidInput(fn, msg) ==
    CASE fn = "process_comp_image" -> ~msg.photo
      [] fn = "process_comp_caption" -> msg.text = NoText
      [] fn = "process_comp_deadline" -> msg.text = NoText \/ ParseDate(msg.text) = 0
      [] fn = "process_comp_winners_count" ->
            msg.text = NoText \/ ~ParseInt(msg.text).ok \/ ParseInt(msg.text).n <= 0
      [] OTHER -> FALSE

\* the registered wizard step handles the message msg
WizardStep(w, a, msg) ==
    \/ process_comp_image(a, msg)
    \/ process_comp_caption(a, msg)
    \/ process_comp_deadline(a, msg)
    \/ comp_winners_count_step(w, a, msg)

\* C15: in each of the four wizard states an invalid input leaves the same step registered
\* with the fields collected so far, so that the next message is handled by that state
C15_InvalidInputReprompts ==
    [][\A w \in Workers, a \in ADMIN_IDS, msg \in WizardMsgs :
         (WizardStep(w, a, msg) /\ InvalidInput(wizard.fn, msg)) => wizard' = wizard]_vars

\* each wizard step holds what the steps before it collected
WizardOrdered ==
    /\ wizard.fn = "process_comp_caption" => wizard.file_id # 0
    /\ wizard.fn = "process_comp_deadline" => (wizard.file_id # 0 /\ wizard.caption # NoText)
    /\ wizard.fn = "process_comp_winners_count" =>
         (wizard.file_id # 0 /\ wizard.caption # NoText /\ wizard.deadline > 0)

Blanks(n) == [i \in 1..n |-> " "]

\* r is t without its leading and trailing blanks
IsTrimOf(r, t) ==
    /\ r = <<>> \/ (Head(r) # " " /\ r[Len(r)] # " ")
    /\ \E i, j \in 0..Len(t) : t = Blanks(i) \o r \o Blanks(j)

\* the caption to store for the text t: empty for a dash, else t trimmed
StoredCaptionOk(t, r) == IF IsTrimOf(Dash, t) THEN r = <<>> ELSE IsTrimOf(r, t)

\* C17: the wizard's caption step and the admin caption edit take the text "-" as the
\* empty caption and every other text as entered, trimmed; the record is saved with the
\* caption so taken, and no stored caption is the dash
C17_DashIsEmptyCaption ==
    [][/\ \A a \in ADMIN_IDS, msg \in WizardMsgs :
            (process_comp_caption(a, msg) /\ msg.text # NoText)
            => StoredCaptionOk(msg.text, wizard'.caption)
       /\ \A w \in Workers, a \in ADMIN_IDS, c \in DOMAIN competitions, t \in CaptionTexts :
            admin_update_caption(w, a, c, t) => StoredCaptionOk(t, task'[w].val)
       /\ \A w \in Workers :
            (task[w].fn \in {"create_save", "admin_update_caption"} /\ task'[w] # task[w])
            => competitions'[task[w].comp_id].caption = task[w].val
       /\ \A c \in DOMAIN competitions' : competitions'[c].caption # Dash]_vars

\* C17 witness: a record whose caption was edited to the empty one after it was created
\* with the caption x, and one whose caption keeps an inner blank
C17_Witness ==
    \/ /\ \E c \in DOMAIN competitions : competitions[c].caption = <<"x">>
       /\ \E w \in Workers : task[w].fn = "admin_update_caption" /\ task[w].val = <<>>
    \/ \E c \in DOMAIN competitions : competitions[c].caption = <<"x", " ", "x">>

\* a record on which neither the deadline parse nor finish_competition raises
Sound(comp) ==
    comp.deadline # BadDeadline /\ (comp.winners.tag = "int" \/ comp.participants = <<>>)

\* C18: the sweep ends every tick and starts the next one, also after a tick in which a
\* record raised, and every sound record that is in the store, not finalized and past its
\* deadline is finalized (or leaves the store) later on
C18_EventuallyFinalized ==
    /\ []<>(chk.pc = "sleep")
    /\ []<>(chk.pc = "sweep")
    /\ \A c \in CompIds :
         (/\ c \in DOMAIN competitions
          /\ Sound(competitions[c])
          /\ ~competitions[c].winners_announced
          /\ now >= competitions[c].deadline)
         ~> (c \notin DOMAIN competitions \/ competitions[c].winners_announced)

\* C18 witness: the sweep sleeps after a tick in which record 1 raised and record 2, found
\* past its deadline, was finalized by one announcement sequence
C18_Witness ==
    /\ chk.pc = "sleep"
    /\ DOMAIN competitions = {1, 2}
    /\ ~Sound(competitions[1])
    /\ competitions[2].winners_announced /\ runs[2] = 1

\* C19: when a tick ends, every sound record that was past its deadline from the start is
\* finalized, whatever other record raised in that tick
C19_ExceptionIsIsolated ==
    [][(chk.pc = "sweep" /\ chk'.pc = "sleep")
        => \A c \in DOMAIN competitions :
             (Sound(competitions[c]) /\ competitions[c].deadline <= 0)
             => competitions[c].winners_announced]_vars

\* C19 witness: at the end of a tick record 1, whose winners field made
\* finish_competition raise, is still open and record 2 behind it is finalized
C19_Witness ==
    /\ chk.pc = "sweep" /\ chk.todo = {}
    /\ DOMAIN competitions = {1, 2}
    /\ competitions[1] = OverdueBadWinners
    /\ competitions[2].winners_announced /\ lastFin[2].kind # "none"

\* C20: whatever /start commands of a user interleave, the user's stored record keeps the
\* referrer id it was created with; no user occurs twice in a referrer's list; a balance
\* is 3 per user listed and a step raises it by at most 3
C20_ReferralOnce ==
    [][/\ \A u \in (DOMAIN users) \cap (DOMAIN users') : users'[u].ref = users[u].ref
       /\ \A r \in DOMAIN users' :
            /\ \A i, j \in DOMAIN users'[r].refs :
                 i # j => users'[r].refs[i] # users'[r].refs[j]
            /\ users'[r].uc = 3 * Len(users'[r].refs)
            /\ r \in DOMAIN users => users'[r].uc <= users[r].uc + 3]_vars

\* C21: the step of add_user that saves a new user credits a referrer only if the
\* referrer's record was in users.json before the new record was created; no user is in
\* their own referred list
C21_ReferrerExistedBefore ==
    [][\A w \in Workers :
         (task[w].fn = "add_user" /\ task'[w] # task[w])
         => (/\ \A r \in DOMAIN users' :
                  (r \notin DOMAIN task[w].snap)
                  => (users'[r].uc = 0 /\ users'[r].refs = <<>>)
             /\ \A r \in DOMAIN users' :
                  \A i \in DOMAIN users'[r].refs : users'[r].refs[i] # r)]_vars

\* the step of worker w that runs the edit loop of update_competition_posts
EditStep(w) == task[w].fn = "edit_posts" /\ task'[w] # task[w]

\* C22: whatever the edits of a refresh do, the refresh returns to its caller; on each
\* surface with a stored handle the button shows the loaded count unless both of that
\* surface's edits failed, whatever happened on the other surface; a surface without a
\* handle is left alone
C22_RefreshNeverRaises ==
    [][\A w \in Workers, o \in EditOutcomes :
         (EditStep(w) /\ edit_posts(w, {o}))
         => LET t == task[w]
                comp == t.snap[t.comp_id]
            IN /\ (t.val = <<"repost">>) => task'[w].fn = "repost_answer"
               /\ (t.val # <<"repost">>) => task'[w] = Idle
               /\ \A p \in Places :
                    shown'[t.comp_id][p] =
                      IF comp.message_info[p] /\ o[p] # "failed"
                      THEN Len(comp.participants)
                      ELSE shown[t.comp_id][p]]_vars

\* a repost was answered although the channel edits failed, and the group's button shows
\* a participant the channel's button does not
C22_Witness ==
    /\ task[1].fn = "repost_answer"
    /\ 1 \in DOMAIN competitions
    /\ competitions[1].message_info["group"]
    /\ shown[1]["group"] = 1
    /\ shown[1]["channel"] = 0

\* C24: when finish_competition persists a finalization that read at least one
\* participant, every stored winner id is the id of a participant of the copy it read, and
\* no id is stored twice
C24_WinnersAreParticipants ==
    [][(chk.pc = "finish_save" /\ chk'.pc = "sweep"
          /\ chk.fsnap[chk.cur].participants # <<>>)
        => LET ids == competitions'[chk.cur].winners.ids
           IN /\ competitions'[chk.cur].winners.tag = "list"
              /\ \A i \in DOMAIN ids : ids[i] \in ParticipantIds(chk.fsnap[chk.cur])
              /\ \A i, j \in DOMAIN ids : i # j => ids[i] # ids[j]]_vars

\* a finalized record whose two participants both won
C24_Witness ==
    \E c \in DOMAIN competitions :
        /\ competitions[c].winners_announced
        /\ competitions[c].winners.tag = "list"
        /\ Len(competitions[c].winners.ids) = 2
        /\ Len(competitions[c].participants) = 2

\* C25: the step of process_comp_winners_count that commits a new competition stores it
\* under an id no record of the store has, and leaves every record of the store as it was
C25_CreateNeverReplaces ==
    [][\A w \in Workers :
         (task[w].fn = "create_save" /\ task'[w] # task[w])
         => (/\ task[w].comp_id \notin DOMAIN competitions
             /\ \A c \in DOMAIN competitions :
                  c \in DOMAIN competitions' /\ competitions'[c] = competitions[c])]_vars

\* the handler positions reached by a load_json("competitions.json") of the same step
LoadedCompetitions ==
    {"join_fallback_save", "comment_save", "create_save", "post_save", "edit_posts"}

\* C26: a handler that loads competitions.json while another handler is inside save_json
\* on that file gets the complete record set the file held before that save began
C26_SaveIsAtomic ==
    [][\A w, w2 \in Workers :
         (/\ w # w2
          /\ task[w2].opened /\ task[w2].fn \in CompetitionSaves
          /\ task'[w] # task[w] /\ task'[w].fn \in LoadedCompetitions)
         => task'[w].snap = task[w2].old]_vars

\* C27: when finish_competition persists a finalization, the deadline stored in the
\* record it marks finalized is not later than the current time, also when
\* admin_update_deadline saved a new deadline between the test of the tick and the reload
C27_FinalizedOnlyWhenDue ==
    [][(chk.pc = "finish_save" /\ chk'.pc = "sweep")
        => (/\ competitions'[chk.cur].winners_announced
            /\ competitions'[chk.cur].deadline # BadDeadline
            /\ competitions'[chk.cur].deadline <= now)]_vars

\* C28: a run of finish_competition that read at least one participant leaves at most one
\* winners announcement on the group and at most one on the channel, whichever sends fail,
\* and its save marks the record finalized with the winners drawn
C28_OneAnnouncementPerSurface ==
    [][/\ (FinishCall /\ chk'.pc = "finish_save"
             /\ chk'.fsnap[chk'.cur].participants # <<>>)
          => (lastFin'[chk'.cur].group <= 1 /\ lastFin'[chk'.cur].channel <= 1)
       /\ (chk.pc = "finish_save" /\ chk'.pc = "sweep"
             /\ chk.fsnap[chk.cur].participants # <<>>)
          => (/\ competitions'[chk.cur].winners_announced
              /\ competitions'[chk.cur].winners = WinList(chk.pick))]_vars

\* C29: a handler run goes on to the step that appends the user to a participant list
\* only if check_subscription answered true for that user in that run, whatever the text
\* of the comment reply
C29_AppendOnlyWhenEligible ==
    [][\A w \in Workers :
         /\ (task[w].fn = "save_comment_and_join" /\ task'[w].fn = "comment_save")
            => check_subscription(task[w].uid)
         /\ (task[w] = Idle /\ task'[w].fn = "join_fallback_save")
            => check_subscription(task'[w].uid)]_vars

\* C30: the steps of update_competition_posts leave competitions.json and users.json as
\* they are, and an edit whose surfaces already show the loaded count changes nothing that
\* is shown either
C30_RefreshOnlyReads ==
    [][\A w \in Workers :
         (task[w].fn \in {"refresh", "edit_posts"} /\ task'[w] # task[w])
         => (/\ competitions' = competitions
             /\ users' = users
             /\ (/\ task[w].fn = "edit_posts"
                 /\ \A p \in Places :
                      task[w].snap[task[w].comp_id].message_info[p]
                      => shown[task[w].comp_id][p]
                           = Len(task[w].snap[task[w].comp_id].participants))
                => shown' = shown)]_vars

\* a repost of a competition with a participant has been rendered on both surfaces and
\* answered, the store holding the record with its handles and its participant
C30_Witness ==
    /\ task[1].fn = "repost_answer"
    /\ 1 \in DOMAIN competitions
    /\ Len(competitions[1].participants) = 1
    /\ \A p \in Places : competitions[1].message_info[p] /\ shown[1][p] = 1

\* C31: the persisted balance of a user is never negative, and the amounts of the
\* withdrawals accepted for a user never add up to more than the credit granted to that
\* user, however the confirmations interleave
C31_WithdrawalsWithinCredit ==
    /\ \A u \in DOMAIN users : users[u].uc >= 0
    /\ \A u \in Users : withdrawn[u] <= Earned(users, u)

=============================================================================
